---- MODULE Spec2Model ----
(***************************************************************************)
(* pi-skill-picker: the scorer (scoreMatch), the match engine             *)
(* (filterSkills, buildDisplayList) and the palette's input state machine  *)
(* (createPaletteState, handlePaletteInput).                               *)
(*                                                                         *)
(* A string is a sequence of UTF-16 code units (naturals): "ad" is         *)
(* <<97, 100>>.  A score is an exact fraction [n |-> num, d |-> den] with  *)
(* d > 0, because the scorer adds length ratios such as                    *)
(* (lq.length / lt.length) * 100 to its tier bases; the values the code    *)
(* computes in floating point are compared here as the exact numbers.      *)
(***************************************************************************)
EXTENDS Integers, Sequences, FiniteSets, TLC

VARIABLES
    allSkills,        \* PaletteRenderState.allSkills
    displayItems,     \* PaletteRenderState.displayItems
    selectedIndex,    \* PaletteRenderState.selectedIndex (0-based, as in the code)
    query,            \* PaletteRenderState.query
    queuedSkillName,  \* PaletteRenderState.queuedSkillName
    recents,          \* PaletteRenderState.recents
    lastInput,        \* the data argument of the last handlePaletteInput call
    lastAction,       \* what that call returned
    sQuery,           \* scoreMatch: the query argument
    sText,            \* scoreMatch: the text argument
    sScore,           \* Some(scoreMatch(sQuery, sText)), once applied
    sText2,           \* a second candidate text for the same query
    sScore2,          \* Some(scoreMatch(sQuery, sText2)), once applied
    fSkills,          \* filterSkills / buildDisplayList: the skills argument
    fQuery,           \* filterSkills: the query argument
    fResult,          \* Some(filterSkills(fSkills, fQuery)), once applied
    fAgain,           \* Some(filterSkills(that result, fQuery)), once applied
    fRecents,         \* buildDisplayList: the recents argument
    fItems,           \* Some(buildDisplayList(fSkills, fRecents)), once applied
    queuedSkill,      \* the extension's state.queuedSkill (None for null)
    stateRecents,     \* the extension's state.recentSkills
    usageFile,        \* usage.json: Some(recents) or None when missing or unreadable
    now,              \* Date.now()
    hostStep,         \* the last step of the extension
    injected,         \* Some(skill) when the last before_agent_start returned its message
    timesRecorded,    \* per name: recordUsage calls since the name entered the list
    timer,            \* SkillPaletteComponent: the timeout of inactivityTimeout
    elapsed,          \* milliseconds since the pending timeout was set
    doneCalls,        \* the calls of the done callback, in order
    disposed,         \* dispose() has been called
    cStep,            \* the last step of the component
    lFiles,           \* the SKILL.md files of the skill directories, in scan order
    lCatalog          \* what loadSkills() returned

paletteVars == <<allSkills, displayItems, selectedIndex, query, queuedSkillName,
                 recents, lastInput, lastAction>>
scoreVars == <<sQuery, sText, sScore, sText2, sScore2>>
filterVars == <<fSkills, fQuery, fResult, fAgain, fRecents, fItems>>
hostVars == <<queuedSkill, stateRecents, usageFile, now, hostStep, injected, timesRecorded>>
componentVars == <<timer, elapsed, doneCalls, disposed, cStep>>
loaderVars == <<lFiles, lCatalog>>
extensionVars == <<hostVars, componentVars, loaderVars>>
vars == <<paletteVars, scoreVars, filterVars, extensionVars>>

\* An optional value (string | null, PaletteAction | undefined) is a sequence
\* of length at most one.
None == <<>>
Some(x) == <<x>>

----------------------------------------------------------------------------
(* Characters and strings *)

Code ==
    ("a" :> 97) @@ ("b" :> 98) @@ ("c" :> 99) @@ ("e" :> 101) @@ ("h" :> 104)
    @@ ("n" :> 110) @@ ("o" :> 111) @@ ("r" :> 114) @@ ("t" :> 116) @@ ("A" :> 65)
    @@ (" " :> 32) @@ ("-" :> 45) @@ (":" :> 58)
    @@ ("s" :> 115) @@ ("k" :> 107) @@ ("i" :> 105) @@ ("l" :> 108) @@ ("g" :> 103)

\* the string whose characters are cs, e.g. S(<<"a", "d">>) is "ad"
S(cs) == [i \in 1..Len(cs) |-> Code[cs[i]]]

Rep(c, n) == [i \in 1..n |-> c]

SetMin(X) == CHOOSE x \in X : \A y \in X : x <= y
SetMax(X) == CHOOSE x \in X : \A y \in X : x >= y

\* String.prototype.toLowerCase on the ASCII range
LowerChar(c) == IF c >= 65 /\ c <= 90 THEN c + 32 ELSE c
toLowerCase(s) == [i \in 1..Len(s) |-> LowerChar(s[i])]

startsWith(t, q) == Len(q) <= Len(t) /\ SubSeq(t, 1, Len(q)) = q

\* String.prototype.indexOf: 0-based index of the leftmost occurrence, or -1
indexOf(t, q) ==
    LET hits == {i \in 0..(Len(t) - Len(q)) : SubSeq(t, i + 1, i + Len(q)) = q}
    IN  IF hits = {} THEN -1 ELSE SetMin(hits)

\* String.prototype.trim: whitespace is tab, LF, VT, FF, CR and space
IsSpace(c) == c \in {9, 10, 11, 12, 13, 32}
RECURSIVE trimStart(_)
trimStart(s) == IF s # <<>> /\ IsSpace(Head(s)) THEN trimStart(Tail(s)) ELSE s
RECURSIVE trimEnd(_)
trimEnd(s) ==
    IF s # <<>> /\ IsSpace(s[Len(s)]) THEN trimEnd(SubSeq(s, 1, Len(s) - 1)) ELSE s
trim(s) == trimEnd(trimStart(s))

----------------------------------------------------------------------------
(* Scores: exact fractions *)

Num(k) == [n |-> k, d |-> 1]
Frac(a, b) == [n |-> a, d |-> b]
Plus(x, y) == [n |-> x.n * y.d + y.n * x.d, d |-> x.d * y.d]
Times(x, y) == [n |-> x.n * y.n, d |-> x.d * y.d]
Less(x, y) == x.n * y.d < y.n * x.d
Same(x, y) == x.n * y.d = y.n * x.d
Positive(x) == x.n > 0
MathMax(x, y) == IF Less(x, y) THEN y ELSE x

\* Math.ceil(n * 0.4) for a natural n
CeilFourTenths(n) == (4 * n + 9) \div 10

----------------------------------------------------------------------------
(* scoreMatch *)

\* One iteration of the fuzzy loop at the 1-based position i of lt; st holds
\* qi, maxRun, currentRun and totalMatched.  Once qi reaches lq.length the
\* loop has ended and st no longer changes.
FuzzyStep(lq, lt, i, st) ==
    IF st.qi >= Len(lq) THEN st
    ELSE IF lt[i] = lq[st.qi + 1]
         THEN [qi |-> st.qi + 1,
               maxRun |-> IF st.currentRun + 1 > st.maxRun
                          THEN st.currentRun + 1 ELSE st.maxRun,
               currentRun |-> st.currentRun + 1,
               totalMatched |-> st.totalMatched + 1]
         ELSE [st EXCEPT !.currentRun = 0]

\* The iterations lo..hi in order, started in st, under the loop condition
\* i < lt.length && qi < lq.length.  The range is split in halves so that the
\* evaluation nests only logarithmically deep.
RECURSIVE FuzzyLoop(_, _, _, _, _)
FuzzyLoop(lq, lt, lo, hi, st) ==
    IF st.qi >= Len(lq) \/ lo > hi THEN st
    ELSE IF lo = hi THEN FuzzyStep(lq, lt, lo, st)
    ELSE LET mid == (lo + hi) \div 2
             left == FuzzyLoop(lq, lt, lo, mid, st)
         IN  FuzzyLoop(lq, lt, mid + 1, hi, left)

FuzzyStart == [qi |-> 0, maxRun |-> 0, currentRun |-> 0, totalMatched |-> 0]

\* the gates without the Math.ceil(lq.length * 0.4) test
FuzzyGateNoRunCheck(lq, lt, f) ==
    IF Len(lq) <= 2 /\ f.maxRun < Len(lq) THEN Num(0)
    ELSE Plus(Num(100 + f.maxRun * 30), Frac(f.totalMatched * 50, Len(lt)))

\* the fuzzy tier's result once every query character was found in order
FuzzyGate(lq, lt, f) ==
    IF Len(lq) <= 2 /\ f.maxRun < Len(lq) THEN Num(0)
    ELSE IF f.maxRun < CeilFourTenths(Len(lq)) THEN Num(0)
    ELSE Plus(Num(100 + f.maxRun * 30), Frac(f.totalMatched * 50, Len(lt)))

\* the fuzzy tier without the "not all chars matched" return
FuzzyTierNoOrderCheck(lq, lt) ==
    FuzzyGate(lq, lt, FuzzyLoop(lq, lt, 1, Len(lt), FuzzyStart))
FuzzyTier(lq, lt) ==
    LET f == FuzzyLoop(lq, lt, 1, Len(lt), FuzzyStart)
    IN  IF f.qi < Len(lq) THEN Num(0) ELSE FuzzyGate(lq, lt, f)

\* the substring tier without the word-boundary bonus
SubstringTierNoBonus(lq, lt, subIdx) == Plus(Num(1000), Frac(Len(lq) * 100, Len(lt)))
SubstringTier(lq, lt, subIdx) ==
    LET atBoundary == subIdx = 0 \/ lt[subIdx] = 45 \/ lt[subIdx] = 32
    IN  Plus(Plus(Num(1000), Frac(Len(lq) * 100, Len(lt))),
             Num(IF atBoundary THEN 200 ELSE 0))

PrefixTier(lq, lt) == Plus(Num(5000), Frac(Len(lq) * 100, Len(lt)))

scoreMatch(q, text) ==
    LET lq == toLowerCase(q)
        lt == toLowerCase(text)
        subIdx == indexOf(lt, lq)
    IN  IF lt = lq THEN Num(10000)
        ELSE IF startsWith(lt, lq) THEN PrefixTier(lq, lt)
        ELSE IF subIdx >= 0 THEN SubstringTier(lq, lt, subIdx)
        ELSE FuzzyTier(lq, lt)

----------------------------------------------------------------------------
(* filterSkills *)

\* A Skill is [name, namespace, description]; filePath and source are read
\* by the loader and the renderer only.  A SkillUsage is [name, namespace,
\* timestamp, count].

\* a sort that is not stable: items of equal score come out in reverse order
SortByScoreDescTiesReversed(items) ==
    LET n == Len(items)
        pos(i) == 1 + Cardinality({j \in 1..n : Less(items[i].score, items[j].score)})
                    + Cardinality({j \in (i + 1)..n : Same(items[i].score, items[j].score)})
    IN  [p \in 1..n |-> items[CHOOSE i \in 1..n : pos(i) = p]]

\* Array.prototype.sort((a, b) => b.score - a.score): descending by score,
\* stable, so equal scores keep their order.
SortByScoreDesc(items) ==
    LET n == Len(items)
        pos(i) == 1 + Cardinality({j \in 1..n : Less(items[i].score, items[j].score)})
                    + Cardinality({j \in 1..(i - 1) : Same(items[i].score, items[j].score)})
    IN  [p \in 1..n |-> items[CHOOSE i \in 1..n : pos(i) = p]]

\* .filter(item => item.score > 0).sort(...) and .map(item => item.skill)
Rank(scored) ==
    LET IsHit(item) == Positive(item.score)
        sorted == SortByScoreDesc(SelectSeq(scored, IsHit))
    IN  [i \in 1..Len(sorted) |-> sorted[i].skill]

\* the namespace:query score without the description
ScopedScoreNameOnly(nameQuery, skill) == scoreMatch(nameQuery, skill.name)

\* the namespace:query branch
ScopedScore(nameQuery, skill) ==
    MathMax(scoreMatch(nameQuery, skill.name),
            Times(scoreMatch(nameQuery, skill.description), Frac(3, 10)))

NamespaceScoped(skills, q, colonIdx) ==
    LET nsFilter == toLowerCase(SubSeq(q, 1, colonIdx))
        nameQuery == trim(SubSeq(q, colonIdx + 2, Len(q)))
        InNs(s) == startsWith(toLowerCase(s.namespace), nsFilter)
        nsSkills == SelectSeq(skills, InNs)
    IN  IF nameQuery = <<>> THEN nsSkills
        ELSE Rank([i \in 1..Len(nsSkills) |->
                     [skill |-> nsSkills[i],
                      score |-> ScopedScore(nameQuery, nsSkills[i])]])

\* the general branch: name, namespace:name and description
GeneralScore(lowerQuery, skill) ==
    LET nameScore == scoreMatch(lowerQuery, skill.name)
        nsNameScore == Times(scoreMatch(lowerQuery, skill.namespace \o <<58>> \o skill.name),
                             Frac(9, 10))
        descLower == toLowerCase(skill.description)
        descScore == IF indexOf(descLower, lowerQuery) >= 0
                     THEN Plus(Num(500), Frac(Len(lowerQuery) * 100, Len(descLower)))
                     ELSE Num(0)
    IN  MathMax(MathMax(nameScore, nsNameScore), descScore)

\* filterSkills with an empty result for a blank query
filterSkillsBlankShowsNothing(skills, q) ==
    IF trim(q) = <<>> THEN <<>>
    ELSE
    LET lowerQuery == trim(toLowerCase(q))
        colonIdx == indexOf(q, <<58>>)
        IsExactNs(s) == toLowerCase(s.namespace) = lowerQuery
        exactNsMatch == SelectSeq(skills, IsExactNs)
        nsMatches == {ns \in {toLowerCase(skills[i].namespace) : i \in 1..Len(skills)} :
                        startsWith(ns, lowerQuery)}
        IsOnlyNs(s) == toLowerCase(s.namespace) \in nsMatches
    IN  IF colonIdx > 0 THEN NamespaceScoped(skills, q, colonIdx)
        ELSE IF Len(exactNsMatch) > 0 THEN exactNsMatch
        ELSE IF Cardinality(nsMatches) = 1 THEN SelectSeq(skills, IsOnlyNs)
        ELSE Rank([i \in 1..Len(skills) |->
                     [skill |-> skills[i],
                      score |-> GeneralScore(lowerQuery, skills[i])]])

\* filterSkills without the exact-namespace return of lines 81-82
filterSkillsNoExactNs(skills, q) ==
    IF trim(q) = <<>> THEN skills
    ELSE
    LET lowerQuery == trim(toLowerCase(q))
        colonIdx == indexOf(q, <<58>>)
        IsExactNs(s) == toLowerCase(s.namespace) = lowerQuery
        exactNsMatch == SelectSeq(skills, IsExactNs)
        nsMatches == {ns \in {toLowerCase(skills[i].namespace) : i \in 1..Len(skills)} :
                        startsWith(ns, lowerQuery)}
        IsOnlyNs(s) == toLowerCase(s.namespace) \in nsMatches
    IN  IF colonIdx > 0 THEN NamespaceScoped(skills, q, colonIdx)
        ELSE IF Cardinality(nsMatches) = 1 THEN SelectSeq(skills, IsOnlyNs)
        ELSE Rank([i \in 1..Len(skills) |->
                     [skill |-> skills[i],
                      score |-> GeneralScore(lowerQuery, skills[i])]])

filterSkills(skills, q) ==
    IF trim(q) = <<>> THEN skills
    ELSE
    LET lowerQuery == trim(toLowerCase(q))
        colonIdx == indexOf(q, <<58>>)
        IsExactNs(s) == toLowerCase(s.namespace) = lowerQuery
        exactNsMatch == SelectSeq(skills, IsExactNs)
        nsMatches == {ns \in {toLowerCase(skills[i].namespace) : i \in 1..Len(skills)} :
                        startsWith(ns, lowerQuery)}
        IsOnlyNs(s) == toLowerCase(s.namespace) \in nsMatches
    IN  IF colonIdx > 0 THEN NamespaceScoped(skills, q, colonIdx)
        ELSE IF Len(exactNsMatch) > 0 THEN exactNsMatch
        ELSE IF Cardinality(nsMatches) = 1 THEN SelectSeq(skills, IsOnlyNs)
        ELSE Rank([i \in 1..Len(skills) |->
                     [skill |-> skills[i],
                      score |-> GeneralScore(lowerQuery, skills[i])]])

----------------------------------------------------------------------------
(* buildDisplayList *)

Other == <<111, 116, 104, 101, 114>>       \* "other"
Recent == <<114, 101, 99, 101, 110, 116>>  \* "recent"

\* lexicographic order on code units; a proper prefix comes first
LexLess(a, b) ==
    LET m == IF Len(a) < Len(b) THEN Len(a) ELSE Len(b)
        diff == {i \in 1..m : a[i] # b[i]}
    IN  IF diff = {} THEN Len(a) < Len(b)
        ELSE a[SetMin(diff)] < b[SetMin(diff)]

\* a.localeCompare(b) < 0 for ASCII strings: letters are compared without
\* regard to case first, and lowercase comes before uppercase on a tie
LocaleLess(a, b) ==
    IF toLowerCase(a) # toLowerCase(b) THEN LexLess(toLowerCase(a), toLowerCase(b))
    ELSE LexLess(b, a)

\* the comparator without the "other" cases
NsBeforeAlphabetical(a, b) == LocaleLess(a, b)

\* the comparator of lines 143-147: "other" last, else localeCompare
NsBefore(a, b) ==
    IF a = Other THEN FALSE
    ELSE IF b = Other THEN TRUE
    ELSE LocaleLess(a, b)

\* Array.prototype.sort((a, b) => a.name.localeCompare(b.name)), stable
SortByName(list) ==
    LET n == Len(list)
        pos(i) == 1 + Cardinality({j \in 1..n : LocaleLess(list[j].name, list[i].name)})
                    + Cardinality({j \in 1..(i - 1) : list[j].name = list[i].name})
    IN  [p \in 1..n |-> list[CHOOSE i \in 1..n : pos(i) = p]]

\* flattening a sequence of sequences
RECURSIVE Flatten(_)
Flatten(ss) == IF ss = <<>> THEN <<>> ELSE Head(ss) \o Flatten(Tail(ss))

Header(ns) == [type |-> "header", namespace |-> ns]
Entry(skill, ns) == [type |-> "skill", skill |-> skill, namespace |-> ns]

\* skills.find(s => s.name === name): the first skill of that name
FindByName(skills, name) ==
    LET hits == {i \in 1..Len(skills) : skills[i].name = name}
    IN  IF hits = {} THEN None ELSE Some(skills[SetMin(hits)])

RecentSection(skills, recs) ==
    LET recentSkills == Flatten([i \in 1..Len(recs) |-> FindByName(skills, recs[i].name)])
    IN  IF Len(recs) > 0 /\ Len(recentSkills) > 0
        THEN <<Header(Recent)>>
             \o [i \in 1..Len(recentSkills) |-> Entry(recentSkills[i], Recent)]
        ELSE <<>>

\* the namespace groups built from all skills, those of the recent section
\* included
GroupSectionsKeepsRecents(skills, recs) ==
    LET keys == {skills[i].namespace : i \in 1..Len(skills)}
        pos(ns) == 1 + Cardinality({m \in keys : NsBefore(m, ns)})
        sortedNs == [p \in 1..Cardinality(keys) |-> CHOOSE ns \in keys : pos(ns) = p]
        Group(ns) ==
            LET InGroup(s) == s.namespace = ns
                sorted == SortByName(SelectSeq(skills, InGroup))
            IN  <<Header(ns)>> \o [i \in 1..Len(sorted) |-> Entry(sorted[i], ns)]
    IN  Flatten([p \in 1..Len(sortedNs) |-> Group(sortedNs[p])])

GroupSections(skills, recs) ==
    LET recentNames == {recs[i].name : i \in 1..Len(recs)}
        Remaining(s) == s.name \notin recentNames
        rest == SelectSeq(skills, Remaining)
        keys == {rest[i].namespace : i \in 1..Len(rest)}
        pos(ns) == 1 + Cardinality({m \in keys : NsBefore(m, ns)})
        sortedNs == [p \in 1..Cardinality(keys) |-> CHOOSE ns \in keys : pos(ns) = p]
        Group(ns) ==
            LET InGroup(s) == s.namespace = ns
                sorted == SortByName(SelectSeq(rest, InGroup))
            IN  <<Header(ns)>> \o [i \in 1..Len(sorted) |-> Entry(sorted[i], ns)]
    IN  Flatten([p \in 1..Len(sortedNs) |-> Group(sortedNs[p])])

buildDisplayList(skills, recs) == RecentSection(skills, recs) \o GroupSections(skills, recs)

----------------------------------------------------------------------------
(* The palette: createPaletteState, handlePaletteInput *)

\* A PaletteRenderState is a record of the six fields; the module's palette
\* variables hold the fields of the one live session.

\* items.findIndex(i => i.type === "skill"): 0-based, -1 when there is none
firstSkillIndex(items) ==
    LET hits == {i \in 1..Len(items) : items[i].type = "skill"}
    IN  IF hits = {} THEN -1 ELSE SetMin(hits) - 1

\* createPaletteState with the cursor on the first item of the list
createPaletteStateCursorAtTop(skills, queued, recs) ==
    [allSkills |-> skills,
     displayItems |-> buildDisplayList(skills, recs),
     selectedIndex |-> 0,
     query |-> <<>>,
     queuedSkillName |-> queued,
     recents |-> recs]

createPaletteState(skills, queued, recs) ==
    LET items == buildDisplayList(skills, recs)
        first == firstSkillIndex(items)
    IN  [allSkills |-> skills,
         displayItems |-> items,
         selectedIndex |-> IF first >= 0 THEN first ELSE 0,
         query |-> <<>>,
         queuedSkillName |-> queued,
         recents |-> recs]

\* the while loop of nextSkillIndex: the first skill at idx, idx + direction,
\* ... inside the list, or -1 when the loop runs off the list
RECURSIVE ScanForSkill(_, _, _)
ScanForSkill(items, idx, direction) ==
    IF ~(idx >= 0 /\ idx < Len(items)) THEN -1
    ELSE IF items[idx + 1].type = "skill" THEN idx
    ELSE ScanForSkill(items, idx + direction, direction)

\* nextSkillIndex that steps to the neighbouring item, header or not
nextSkillIndexAnyItem(items, from, direction) ==
    IF items = <<>> THEN 0 ELSE (from + direction + Len(items)) % Len(items)
\* nextSkillIndex that stays where it is instead of wrapping
nextSkillIndexNoWrap(items, from, direction) ==
    LET hit == ScanForSkill(items, from + direction, direction)
    IN  IF hit >= 0 THEN hit ELSE from
\* nextSkillIndex that wraps to the first entry in both directions
nextSkillIndexWrapsToFirst(items, from, direction) ==
    LET hit == ScanForSkill(items, from + direction, direction)
        first == firstSkillIndex(items)
    IN  IF hit >= 0 THEN hit
        ELSE IF first >= 0 THEN first ELSE 0
nextSkillIndex(items, from, direction) ==
    LET hit == ScanForSkill(items, from + direction, direction)
        first == firstSkillIndex(items)
        skillsAt == {i \in 1..Len(items) : items[i].type = "skill"}
    IN  IF hit >= 0 THEN hit
        ELSE IF direction = 1 THEN (IF first >= 0 THEN first ELSE 0)
        ELSE IF skillsAt # {} THEN SetMax(skillsAt) - 1
        ELSE 0

\* the display list updateFilter computes, grouped whatever the query
DisplayOfAlwaysGrouped(st) == buildDisplayList(filterSkills(st.allSkills, st.query), st.recents)
DisplayOf(st) ==
    LET filtered == filterSkills(st.allSkills, st.query)
    IN  IF trim(st.query) # <<>>
        THEN [i \in 1..Len(filtered) |-> Entry(filtered[i], filtered[i].namespace)]
        ELSE buildDisplayList(filtered, st.recents)

\* updateFilter that keeps the cursor where it was
updateFilterKeepCursor(st) == [st EXCEPT !.displayItems = DisplayOf(st)]
updateFilter(st) ==
    LET items == DisplayOf(st)
        first == firstSkillIndex(items)
    IN  [st EXCEPT !.displayItems = items,
                   !.selectedIndex = IF first >= 0 THEN first ELSE 0]

\* matchesKey(data, key) of pi-tui, for the byte sequences the tests send
KeyEscape == <<27>>
KeyReturn == <<13>>
KeyUp == <<27, 91, 65>>
KeyDown == <<27, 91, 66>>
KeyBackspace == <<127>>
matchesKey(data, key) == data = key

CancelAction == [type |-> "cancel"]
SelectAction(skill) == [type |-> "select", skill |-> skill]
UnqueueAction(skill) == [type |-> "unqueue", skill |-> skill]

\* the Confirm branch: the action for the item under the cursor; first
\* without the comparison with the queued name
ConfirmAlwaysSelect(st) ==
    LET i == st.selectedIndex + 1
    IN  IF i \in 1..Len(st.displayItems) /\ st.displayItems[i].type = "skill"
        THEN Some(SelectAction(st.displayItems[i].skill))
        ELSE None
Confirm(st) ==
    LET i == st.selectedIndex + 1
    IN  IF i \in 1..Len(st.displayItems) /\ st.displayItems[i].type = "skill"
        THEN IF Some(st.displayItems[i].skill.name) = st.queuedSkillName
             THEN Some(UnqueueAction(st.displayItems[i].skill))
             ELSE Some(SelectAction(st.displayItems[i].skill))
        ELSE None

\* the Erase branch; without the refresh; without the test for an empty query
EraseNoRefresh(st) ==
    IF Len(st.query) > 0
    THEN [st EXCEPT !.query = SubSeq(st.query, 1, Len(st.query) - 1)]
    ELSE st
EraseAlways(st) == updateFilter([st EXCEPT !.query = SubSeq(st.query, 1, Len(st.query) - 1)])
Erase(st) ==
    IF Len(st.query) > 0
    THEN updateFilter([st EXCEPT !.query = SubSeq(st.query, 1, Len(st.query) - 1)])
    ELSE st

\* the result of handlePaletteInput: the state it leaves and what it returns
handlePaletteInput(st, data) ==
    IF matchesKey(data, KeyEscape) THEN [state |-> st, action |-> Some(CancelAction)]
    ELSE IF matchesKey(data, KeyReturn) THEN [state |-> st, action |-> Confirm(st)]
    ELSE IF matchesKey(data, KeyUp)
         THEN [state |-> [st EXCEPT !.selectedIndex =
                             nextSkillIndex(st.displayItems, st.selectedIndex, -1)],
               action |-> None]
    ELSE IF matchesKey(data, KeyDown)
         THEN [state |-> [st EXCEPT !.selectedIndex =
                             nextSkillIndex(st.displayItems, st.selectedIndex, 1)],
               action |-> None]
    ELSE IF matchesKey(data, KeyBackspace) THEN [state |-> Erase(st), action |-> None]
    ELSE IF Len(data) = 1 /\ data[1] >= 32
         THEN [state |-> updateFilter([st EXCEPT !.query = st.query \o data]),
               action |-> None]
    ELSE [state |-> st, action |-> None]

----------------------------------------------------------------------------
(* The palette session *)

MaxTyped == 3     \* longest query typed in a session

Skill(name, ns, desc) == [name |-> S(name), namespace |-> S(ns), description |-> S(desc)]
Usage(name, ns, ts, count) ==
    [name |-> S(name), namespace |-> S(ns), timestamp |-> ts, count |-> count]

\* names are unique within a catalog, as loadSkills leaves them
Catalog1 ==
    <<Skill(<<"b", "a">>, <<"a", "b">>, <<"a", " ", "b">>),
      Skill(<<"a", "b">>, <<"b">>, <<>>),
      Skill(<<"a", "-", "b", "a">>, <<"b">>, <<"b", "a">>),
      Skill(<<"b", "b">>, <<"o", "t", "h", "e", "r">>, <<"a", "b", " ", "a">>)>>
Catalog2 ==
    <<Skill(<<"b">>, <<"A">>, <<"A", "b">>),
      Skill(<<"a", "a">>, <<"a">>, <<>>)>>
Catalogs == {Catalog1, Catalog2}

\* most recent first; "c" names a skill that no longer exists
RecentsChoices ==
    {<<>>,
     <<Usage(<<"c">>, <<"b">>, 3, 1),
       Usage(<<"a", "-", "b", "a">>, <<"b">>, 2, 2),
       Usage(<<"a", "a">>, <<"a">>, 1, 1)>>}

QueuedChoices == {None, Some(S(<<"b", "a">>)), Some(S(<<"a", "a">>))}

\* what a session types: "a", "b", "A", ":", " "
TypeChars == {<<97>>, <<98>>, <<65>>, <<58>>, <<32>>}
\* Ctrl-A, the right-arrow escape sequence, and a two-character paste
OtherInputs == {<<1>>, <<27, 91, 67>>, <<97, 98>>}
Keys == {KeyEscape, KeyReturn, KeyUp, KeyDown, KeyBackspace}
Inputs == Keys \cup TypeChars \cup OtherInputs

State ==
    [allSkills |-> allSkills,
     displayItems |-> displayItems,
     selectedIndex |-> selectedIndex,
     query |-> query,
     queuedSkillName |-> queuedSkillName,
     recents |-> recents]

SetState(st) ==
    /\ allSkills' = st.allSkills
    /\ displayItems' = st.displayItems
    /\ selectedIndex' = st.selectedIndex
    /\ query' = st.query
    /\ queuedSkillName' = st.queuedSkillName
    /\ recents' = st.recents

ScoreIdle ==
    /\ sQuery = <<>>
    /\ sText = <<>>
    /\ sScore = None
    /\ sText2 = <<>>
    /\ sScore2 = None

FilterIdle ==
    /\ fSkills = <<>>
    /\ fQuery = <<>>
    /\ fResult = None
    /\ fAgain = None
    /\ fRecents = <<>>
    /\ fItems = None

HostIdle ==
    /\ queuedSkill = None
    /\ stateRecents = <<>>
    /\ usageFile = None
    /\ now = 0
    /\ hostStep = "none"
    /\ injected = None
    /\ timesRecorded = <<>>

ComponentIdle ==
    /\ timer = "none"
    /\ elapsed = 0
    /\ doneCalls = <<>>
    /\ disposed = FALSE
    /\ cStep = "none"

LoaderIdle ==
    /\ lFiles = <<>>
    /\ lCatalog = None

ExtensionIdle == HostIdle /\ ComponentIdle /\ LoaderIdle

Init ==
    /\ \E skills \in Catalogs, queued \in QueuedChoices, recs \in RecentsChoices :
         LET st == createPaletteState(skills, queued, recs)
         IN  /\ allSkills = st.allSkills
             /\ displayItems = st.displayItems
             /\ selectedIndex = st.selectedIndex
             /\ query = st.query
             /\ queuedSkillName = st.queuedSkillName
             /\ recents = st.recents
    /\ lastInput = <<>>
    /\ lastAction = None
    /\ ScoreIdle
    /\ FilterIdle
    /\ ExtensionIdle

\* one call handlePaletteInput(state, data)
HandleInput(data) ==
    /\ data \in TypeChars => Len(query) < MaxTyped
    /\ LET r == handlePaletteInput(State, data)
       IN  /\ SetState(r.state)
           /\ lastAction' = r.action
    /\ lastInput' = data
    /\ UNCHANGED scoreVars
    /\ UNCHANGED filterVars
    /\ UNCHANGED extensionVars

Next == \E data \in Inputs : HandleInput(data)

Spec == Init /\ [][Next]_vars

----------------------------------------------------------------------------
(* Properties of the palette session *)

\* 0-based positions of the skill entries of a display list
EntryPositions(items) == {i \in 0..(Len(items) - 1) : items[i + 1].type = "skill"}
HasHeader(items) == \E i \in 1..Len(items) : items[i].type = "header"

\* the flat list of a search: one entry per item, tagged with its namespace
FlatList(skills) ==
    [i \in 1..Len(skills) |->
        [type |-> "skill", skill |-> skills[i], namespace |-> skills[i].namespace]]

\* the display list as a function of catalog, query and recents
Render(skills, q, recs) ==
    IF trim(q) = <<>> THEN buildDisplayList(skills, recs)
    ELSE FlatList(filterSkills(skills, q))

FirstEntryOrZero(items) ==
    IF EntryPositions(items) = {} THEN 0 ELSE SetMin(EntryPositions(items))

SessionUnchanged ==
    UNCHANGED <<allSkills, displayItems, selectedIndex, query, queuedSkillName, recents>>

\* C1: whenever the display list holds an entry the cursor is on an entry
\* (never on a header, never out of range); with no entry the cursor is 0.
C1_CursorOnEntry ==
    IF EntryPositions(displayItems) # {}
    THEN selectedIndex \in EntryPositions(displayItems)
    ELSE selectedIndex = 0

\* Move-previous has wrapped over the headers of a grouped list to its last entry
C1_Witness ==
    /\ lastInput = KeyUp
    /\ HasHeader(displayItems)
    /\ Cardinality(EntryPositions(displayItems)) >= 3
    /\ selectedIndex = SetMax(EntryPositions(displayItems))

\* C2: the display list is always the recompute from (allSkills, query,
\* recents), and navigation, confirm and cancel never alter it.
C2_DisplayIsRecompute ==
    /\ [](displayItems = Render(allSkills, query, recents))
    /\ [][lastInput' \in {KeyUp, KeyDown, KeyReturn, KeyEscape}
            => displayItems' = displayItems]_vars

\* a character was erased and the list is that of the shorter query
C2_Witness ==
    /\ lastInput = KeyBackspace
    /\ Len(query) = 2
    /\ Len(displayItems) >= 2
    /\ ~HasHeader(displayItems)

\* C3: Confirm returns unqueue for the entry under the cursor when its name
\* is the queued name, select when it is not, and nothing when no entry is
\* under the cursor; the skill returned is the entry at selectedIndex.
C3_ConfirmAction ==
    [][lastInput' = KeyReturn =>
         IF selectedIndex \in EntryPositions(displayItems)
         THEN LET skill == displayItems[selectedIndex + 1].skill
              IN  IF queuedSkillName # None /\ queuedSkillName[1] = skill.name
                  THEN lastAction' = Some([type |-> "unqueue", skill |-> skill])
                  ELSE lastAction' = Some([type |-> "select", skill |-> skill])
         ELSE lastAction' = None]_vars

\* Confirm on the queued skill, after the cursor was moved onto it
C3_Witness ==
    /\ lastInput = KeyReturn
    /\ lastAction # None
    /\ lastAction[1].type = "unqueue"
    /\ selectedIndex # FirstEntryOrZero(displayItems)

\* C4: Cancel, Confirm, Erase on an empty query and control or unrecognized
\* input leave the session state unchanged; only Cancel and Confirm on an
\* entry return an action.
C4_NoOpInputs ==
    [][(\/ lastInput' \in {KeyEscape, KeyReturn}
        \/ lastInput' \in OtherInputs
        \/ (lastInput' = KeyBackspace /\ query = <<>>))
       => /\ SessionUnchanged
          /\ (lastAction' # None) <=>
                \/ lastInput' = KeyEscape
                \/ (lastInput' = KeyReturn
                    /\ selectedIndex \in EntryPositions(displayItems))]_vars

\* a control character arrived in a session with a query and a moved cursor
C4_Witness ==
    /\ lastInput = <<1>>
    /\ lastAction = None
    /\ query # <<>>
    /\ selectedIndex # FirstEntryOrZero(displayItems)

\* the entry after / before position i in display order, wrapping around
NextEntry(items, i) ==
    LET after == {e \in EntryPositions(items) : e > i}
    IN  IF after # {} THEN SetMin(after) ELSE SetMin(EntryPositions(items))
PrevEntry(items, i) ==
    LET before == {e \in EntryPositions(items) : e < i}
    IN  IF before # {} THEN SetMax(before) ELSE SetMax(EntryPositions(items))

\* C5: Move-next puts the cursor on the nearest following entry and wraps
\* from the last entry to the first; Move-previous on the nearest preceding
\* entry and wraps from the first to the last; both return nothing and keep
\* query and display list.
C5_Navigation ==
    [][(lastInput' \in {KeyUp, KeyDown} /\ EntryPositions(displayItems) # {}) =>
         /\ lastInput' = KeyDown => selectedIndex' = NextEntry(displayItems, selectedIndex)
         /\ lastInput' = KeyUp => selectedIndex' = PrevEntry(displayItems, selectedIndex)
         /\ lastAction' = None
         /\ UNCHANGED <<query, displayItems>>]_vars

\* Move-next has wrapped from the last entry of a grouped list to its first
C5_Witness ==
    /\ lastInput = KeyDown
    /\ HasHeader(displayItems)
    /\ Cardinality(EntryPositions(displayItems)) >= 3
    /\ selectedIndex = SetMin(EntryPositions(displayItems))

\* C6: a printable character is appended to the query, Erase on a non-empty
\* query removes its last character; both recompute the display list and put
\* the cursor on its first entry (0 if it has none).
C6_EditQuery ==
    [][(\/ (Len(lastInput') = 1 /\ lastInput'[1] >= 32 /\ lastInput' \notin Keys)
        \/ (lastInput' = KeyBackspace /\ query # <<>>))
       => /\ lastInput' # KeyBackspace => query' = query \o lastInput'
          /\ lastInput' = KeyBackspace => query' = SubSeq(query, 1, Len(query) - 1)
          /\ displayItems' = Render(allSkills, query', recents)
          /\ selectedIndex' = FirstEntryOrZero(displayItems')
          /\ lastAction' = None
          /\ UNCHANGED <<allSkills, queuedSkillName, recents>>]_vars

\* a character was typed and the new list has entries, the cursor on the first
C6_Witness ==
    /\ lastInput \in TypeChars
    /\ Len(query) >= 2
    /\ Cardinality(EntryPositions(displayItems)) >= 2
    /\ selectedIndex = 0

\* C7 as stated: with a non-empty query the display list has no header and
\* is the filter output, one entry per item under its own namespace; with an
\* empty query it is buildDisplayList over the catalog and the recents.
C7_FlatWhenQueryNonEmpty ==
    IF query # <<>>
    THEN /\ ~HasHeader(displayItems)
         /\ displayItems = FlatList(filterSkills(allSkills, query))
    ELSE displayItems = buildDisplayList(allSkills, recents)

\* C7 amended: the same with "non-empty" read as "holds a character that is
\* not whitespace"; a query of whitespace only is shown grouped.
C7_FlatWhenQueryNonBlank ==
    IF trim(query) # <<>>
    THEN /\ ~HasHeader(displayItems)
         /\ displayItems = FlatList(filterSkills(allSkills, query))
    ELSE displayItems = buildDisplayList(allSkills, recents)

\* a query of one space, shown grouped with headers
C7_Witness ==
    /\ query # <<>>
    /\ trim(query) = <<>>
    /\ HasHeader(displayItems)
    /\ lastInput \in TypeChars

----------------------------------------------------------------------------
(* Inputs of the scorer *)

MaxQueryLen == 3      \* longest enumerated query
MaxTextLen == 5       \* longest enumerated text
MaxTierLen == 4       \* longest enumerated text when two texts are compared
LongRun == 330        \* length of the run of "a" in the long query
TierRun == 32         \* the same when two texts are compared

Strings(alphabet, n) == UNION {[1..k -> alphabet] : k \in 0..n}

ScoreAlphabet == {97, 65, 45}     \* "a", "A", "-"

\* "aa...ab" with a run of n "a", and texts in which it is exact, a prefix, a
\* substring after a hyphen, a substring in mid-word, and only a subsequence
LongQuery(n) == Rep(97, n) \o <<98>>
LongTexts(n) ==
    {LongQuery(n), LongQuery(n) \o <<97>>, <<45>> \o LongQuery(n),
     <<97>> \o LongQuery(n), Rep(97, n) \o <<45, 98>>}

ScoreQueries == Strings(ScoreAlphabet, MaxQueryLen) \cup {LongQuery(LongRun)}
ScoreTexts == Strings(ScoreAlphabet, MaxTextLen) \cup LongTexts(LongRun)
TierQueries == Strings(ScoreAlphabet, MaxTierLen - 1) \cup {LongQuery(TierRun)}
TierTexts == Strings(ScoreAlphabet, MaxTierLen) \cup LongTexts(TierRun)

PaletteIdle ==
    /\ allSkills = <<>>
    /\ displayItems = <<>>
    /\ selectedIndex = 0
    /\ query = <<>>
    /\ queuedSkillName = None
    /\ recents = <<>>
    /\ lastInput = <<>>
    /\ lastAction = None

\* one query, one text
InitScore ==
    /\ PaletteIdle
    /\ FilterIdle
    /\ ExtensionIdle
    /\ sQuery \in ScoreQueries
    /\ sText \in ScoreTexts
    /\ sScore = None
    /\ sText2 = <<>>
    /\ sScore2 = None

ApplyScore ==
    /\ sScore = None
    /\ sScore' = Some(scoreMatch(sQuery, sText))
    /\ UNCHANGED <<sQuery, sText, sText2, sScore2>>
    /\ UNCHANGED paletteVars
    /\ UNCHANGED filterVars
    /\ UNCHANGED extensionVars

SpecScore == InitScore /\ [][ApplyScore]_vars

\* one query, two candidate texts
InitTiers ==
    /\ PaletteIdle
    /\ FilterIdle
    /\ ExtensionIdle
    /\ sQuery \in TierQueries
    /\ sText \in TierTexts
    /\ sText2 \in TierTexts
    /\ sScore = None
    /\ sScore2 = None

ApplyScorePair ==
    /\ sScore = None
    /\ sScore' = Some(scoreMatch(sQuery, sText))
    /\ sScore2' = Some(scoreMatch(sQuery, sText2))
    /\ UNCHANGED <<sQuery, sText, sText2>>
    /\ UNCHANGED paletteVars
    /\ UNCHANGED filterVars
    /\ UNCHANGED extensionVars

SpecTiers == InitTiers /\ [][ApplyScorePair]_vars

\* one query and two texts over letters, hyphen and space, for the substring
\* tier; the padded texts hold "a" far from their start, after a hyphen, after
\* a space and after a letter
MaxBoundaryLen == 3   \* longest enumerated text of the substring inputs
BoundaryPad == 30     \* length of the run of "b" in the padded texts

BoundaryAlphabet == {97, 98, 45, 32}     \* "a", "b", "-", " "
BoundaryQueries == Strings({97, 98}, MaxBoundaryLen - 1)
BoundaryTexts ==
    Strings(BoundaryAlphabet, MaxBoundaryLen)
        \cup {Rep(98, BoundaryPad) \o <<45, 97>>, Rep(98, BoundaryPad) \o <<32, 97>>,
              Rep(98, BoundaryPad) \o <<97>>}

InitBoundary ==
    /\ PaletteIdle
    /\ FilterIdle
    /\ ExtensionIdle
    /\ sQuery \in BoundaryQueries
    /\ sText \in BoundaryTexts
    /\ sText2 \in BoundaryTexts
    /\ sScore = None
    /\ sScore2 = None

SpecBoundary == InitBoundary /\ [][ApplyScorePair]_vars

----------------------------------------------------------------------------
(* Inputs of filterSkills *)

MaxCatalog == 3        \* most skills in an enumerated catalog
MaxFilterQuery == 3    \* longest enumerated query

\* the skills catalogs are made of; names are unique, as loadSkills leaves them
FilterPool ==
    <<Skill(<<"a", "b">>, <<"b">>, <<"a", " ", "b">>),
      Skill(<<"b">>, <<"a", "b">>, <<"a", "a", "-", "b">>),
      Skill(<<"a", "-", "b", "a">>, <<"A">>, <<"b", "a">>),
      Skill(<<"b", "b">>, <<"o", "t", "h", "e", "r">>, <<"a", "b", " ", "a">>),
      Skill(<<"a", "a", "b">>, <<"a", "b">>, <<"b">>),
      Skill(<<"a">>, <<"a", "-">>, <<"b", ":", "a">>)>>

\* the sequences of at most n distinct elements of X
InjectiveSeqs(X, n) ==
    UNION {{f \in [1..k -> X] : \A i, j \in 1..k : i # j => f[i] # f[j]} : k \in 0..n}

FilterCatalogs ==
    {[i \in 1..Len(c) |-> FilterPool[c[i]]] :
        c \in InjectiveSeqs(1..Len(FilterPool), MaxCatalog)}

\* "a", "b", "A", ":", " "
QueryAlphabet == {97, 98, 65, 58, 32}
\* namespace:query searches for "aab"
ScopedQueries ==
    {S(<<"a", "b", ":", "a", "a", "b">>), S(<<"b", ":", "a", "a", "b">>),
     S(<<"a", ":", "a", "a", "b">>), S(<<":", "a", "a", "b">>),
     S(<<"a", "a", "b">>)}
FilterQueries == Strings(QueryAlphabet, MaxFilterQuery) \cup ScopedQueries

InitFilter ==
    /\ PaletteIdle
    /\ ScoreIdle
    /\ ExtensionIdle
    /\ fSkills \in FilterCatalogs
    /\ fQuery \in FilterQueries
    /\ fResult = None
    /\ fAgain = None
    /\ fRecents = <<>>
    /\ fItems = None

\* filterSkills(skills, query)
ApplyFilter ==
    /\ fResult = None
    /\ fResult' = Some(filterSkills(fSkills, fQuery))
    /\ UNCHANGED <<fSkills, fQuery, fAgain, fRecents, fItems>>
    /\ UNCHANGED paletteVars
    /\ UNCHANGED scoreVars
    /\ UNCHANGED extensionVars

\* filterSkills(result, query): the same query over the result of the first call
ApplyFilterAgain ==
    /\ fResult # None
    /\ fAgain = None
    /\ fAgain' = Some(filterSkills(fResult[1], fQuery))
    /\ UNCHANGED <<fSkills, fQuery, fResult, fRecents, fItems>>
    /\ UNCHANGED paletteVars
    /\ UNCHANGED scoreVars
    /\ UNCHANGED extensionVars

NextFilter == ApplyFilter \/ ApplyFilterAgain

SpecFilter == InitFilter /\ [][NextFilter]_vars

----------------------------------------------------------------------------
(* Inputs of buildDisplayList *)

MaxDisplayCatalog == 4   \* most skills in an enumerated catalog
MaxRecents == 2          \* most records in an enumerated recents list

\* namespaces are directory names: "b", "A" and "a", the fallback "other",
\* and a directory that is itself called "recent"
DisplayPool ==
    <<Skill(<<"a", "b">>, <<"b">>, <<"a">>),
      Skill(<<"A">>, <<"b">>, <<"a">>),
      Skill(<<"a", "-", "b", "a">>, <<"A">>, <<"a">>),
      Skill(<<"b", "b">>, <<"o", "t", "h", "e", "r">>, <<"a">>),
      Skill(<<"a", "a">>, <<"r", "e", "c", "e", "n", "t">>, <<"a">>),
      Skill(<<"b">>, <<"a">>, <<"a">>)>>

DisplayCatalogs ==
    {[i \in 1..Len(c) |-> DisplayPool[c[i]]] :
        c \in InjectiveSeqs(1..Len(DisplayPool), MaxDisplayCatalog)}

\* the names usage records are about; "c" is no skill of any catalog
RecentNames == {S(<<"a", "b">>), S(<<"A">>), S(<<"b", "b">>), S(<<"a", "a">>), S(<<"c">>)}

\* recordUsage keeps one record per name and puts the latest first
DisplayRecents ==
    {[i \in 1..Len(r) |->
        [name |-> r[i], namespace |-> <<98>>, timestamp |-> Len(r) + 1 - i, count |-> 1]] :
        r \in InjectiveSeqs(RecentNames, MaxRecents)}

InitDisplay ==
    /\ PaletteIdle
    /\ ScoreIdle
    /\ ExtensionIdle
    /\ fSkills \in DisplayCatalogs
    /\ fRecents \in DisplayRecents
    /\ fItems = None
    /\ fQuery = <<>>
    /\ fResult = None
    /\ fAgain = None

\* buildDisplayList(skills, recents)
ApplyBuildDisplayList ==
    /\ fItems = None
    /\ fItems' = Some(buildDisplayList(fSkills, fRecents))
    /\ UNCHANGED <<fSkills, fQuery, fResult, fAgain, fRecents>>
    /\ UNCHANGED paletteVars
    /\ UNCHANGED scoreVars
    /\ UNCHANGED extensionVars

\* createPaletteState(skills, null, recents): a session opened on the catalog,
\* once
OpenPalette ==
    /\ allSkills = <<>>
    /\ displayItems = <<>>
    /\ SetState(createPaletteState(fSkills, None, fRecents))
    /\ UNCHANGED <<lastInput, lastAction>>
    /\ UNCHANGED filterVars
    /\ UNCHANGED extensionVars
    /\ UNCHANGED scoreVars

NextDisplay == ApplyBuildDisplayList \/ OpenPalette

SpecDisplay == InitDisplay /\ [][NextDisplay]_vars

----------------------------------------------------------------------------
(* Properties of scoreMatch *)

\* SubLens(q, t, lo, hi, js): js is a set of lengths j such that q[1..j] is a
\* subsequence of t[1..lo-1]; the result is that set for t[1..hi].
RECURSIVE SubLens(_, _, _, _, _)
SubLens(q, t, lo, hi, js) ==
    IF js = {} \/ lo > hi THEN js
    ELSE IF lo = hi
         THEN js \cup {j + 1 : j \in {k \in js : k < Len(q) /\ q[k + 1] = t[lo]}}
    ELSE LET mid == (lo + hi) \div 2
             left == SubLens(q, t, lo, mid, js)
         IN  SubLens(q, t, mid + 1, hi, left)

\* the characters of q occur in t in order
IsSubsequence(q, t) == Len(q) \in SubLens(q, t, 1, Len(t), {0})

\* the tier of text t for query q: 4 exact, 3 prefix, 2 substring that is
\* no prefix, 1 subsequence only, 0 no match
Tier(q, t) ==
    LET lq == toLowerCase(q)
        lt == toLowerCase(t)
    IN  IF lq = lt THEN 4
        ELSE IF startsWith(lt, lq) THEN 3
        ELSE IF \E i \in 1..(Len(lt) - Len(lq)) : SubSeq(lt, i + 1, i + Len(lq)) = lq
             THEN 2
        ELSE IF IsSubsequence(lq, lt) THEN 1
        ELSE 0

\* C10: scoreMatch(query, text) is never negative, and a score above 0
\* implies that the lowercased query is a subsequence of the lowercased text.
C10_NonNegativeAndSubsequence ==
    sScore # None =>
        /\ sScore[1].n >= 0
        /\ sScore[1].d > 0
        /\ (Positive(sScore[1])
              => IsSubsequence(toLowerCase(sQuery), toLowerCase(sText)))

\* a pair that scored above 0 although the text holds the query only as a
\* scattered subsequence
C10_Witness ==
    /\ sScore # None
    /\ Positive(sScore[1])
    /\ Tier(sQuery, sText) = 1
    /\ Len(sQuery) = 3

\* C9: scoreMatch(t, t) is 10000 for every t, 10000 is the largest score, and
\* no pair whose query differs from its text scores 10000 or more.  The scorer
\* compares lowercased strings, so "differs" is read up to letter case here
\* (read to the letter, "A" against "a" scores 10000 as well).
C9_ExactIsTheMaximum ==
    sScore # None =>
        /\ (sQuery = sText => Same(sScore[1], Num(10000)))
        /\ ~Less(Num(10000), sScore[1])
        /\ (toLowerCase(sQuery) # toLowerCase(sText) => Less(sScore[1], Num(10000)))

\* C8: for a fixed query, a text of a higher tier (exact, prefix, substring,
\* subsequence only) scores strictly above every text of the tier below.
C8_TiersStrictlyOrdered ==
    (sScore # None /\ sScore2 # None) =>
        ((Tier(sQuery, sText2) >= 1 /\ Tier(sQuery, sText) = Tier(sQuery, sText2) + 1)
            => Less(sScore2[1], sScore[1]))

\* LeftmostMatch(q, t, lo, hi, m): the scan of t[lo..hi] that matches each
\* character of q at the first position after the previous match; m lists the
\* positions matched before lo, and the result those matched up to hi.
RECURSIVE LeftmostMatch(_, _, _, _, _)
LeftmostMatch(q, t, lo, hi, m) ==
    IF Len(m) >= Len(q) \/ lo > hi THEN m
    ELSE IF lo = hi THEN (IF t[lo] = q[Len(m) + 1] THEN Append(m, lo) ELSE m)
    ELSE LET mid == (lo + hi) \div 2
             left == LeftmostMatch(q, t, lo, mid, m)
         IN  LeftmostMatch(q, t, mid + 1, hi, left)

\* the length of the longest stretch of adjacent positions in the increasing
\* sequence m
LongestRun(m) ==
    LET starts == {k \in 1..Len(m) : k = 1 \/ m[k - 1] # m[k] - 1}
        ends == {k \in 1..Len(m) : k = Len(m) \/ m[k + 1] # m[k] + 1}
        EndOf(k) == SetMin({e \in ends : e >= k})
    IN  IF m = <<>> THEN 0 ELSE SetMax({EndOf(k) - k + 1 : k \in starts})

\* the least integer that is at least 40% of n
CeilOfFortyPercent(n) == CHOOSE c \in 0..n : 10 * c >= 4 * n /\ 10 * (c - 1) < 4 * n

Occurrences(q, t) ==
    {i \in 0..(Len(t) - Len(q)) :
        SubSeq(toLowerCase(t), i + 1, i + Len(q)) = toLowerCase(q)}

\* the leftmost occurrence of q in t is not at the start of t and the
\* character before it is a space or a hyphen / is neither
AfterSeparator(q, t) ==
    /\ Occurrences(q, t) # {}
    /\ SetMin(Occurrences(q, t)) > 0
    /\ t[SetMin(Occurrences(q, t))] \in {32, 45}
MidWord(q, t) ==
    /\ Occurrences(q, t) # {}
    /\ SetMin(Occurrences(q, t)) > 0
    /\ t[SetMin(Occurrences(q, t))] \notin {32, 45}

\* C12: for one query, a text whose leftmost occurrence of the query starts
\* right after a space or a hyphen scores strictly above every text whose
\* leftmost occurrence is in the middle of a word, whatever the two lengths.
C12_BoundaryBeatsMidWord ==
    (sScore # None /\ sScore2 # None) =>
        (AfterSeparator(sQuery, sText) /\ MidWord(sQuery, sText2)
            => Less(sScore2[1], sScore[1]))

\* the boundary text is the padded one and the mid-word text a short one,
\* so the length bonus favours the mid-word text
C12_Witness ==
    /\ sScore # None
    /\ sScore2 # None
    /\ AfterSeparator(sQuery, sText)
    /\ MidWord(sQuery, sText2)
    /\ Len(sText) > BoundaryPad
    /\ Len(sText2) = Len(sQuery) + 1

----------------------------------------------------------------------------
(* Properties of filterSkills *)

\* C13: for a query that is empty or only whitespace, filterSkills returns the
\* catalog unchanged: the same items in the same order.
C13_BlankQueryIsIdentity ==
    (fResult # None /\ (\A i \in 1..Len(fQuery) : IsSpace(fQuery[i])))
        => fResult[1] = fSkills

\* a query of spaces over a catalog of several skills
C13_Witness ==
    /\ fResult # None
    /\ fQuery = <<32, 32>>
    /\ Len(fSkills) >= 2

\* C14: filtering is idempotent: filterSkills(filterSkills(catalog, q), q) is
\* the same sequence as filterSkills(catalog, q), whichever branch the first
\* pass took.
C14_FilterIdempotent ==
    (fResult # None /\ fAgain # None) => fAgain[1] = fResult[1]

\* a second pass over a ranking of several skills that is not in catalog
\* order, two of them with the same score
C14_Witness ==
    /\ fResult # None
    /\ fAgain # None
    /\ indexOf(fQuery, <<58>>) <= 0
    /\ Len(fResult[1]) >= 3
    /\ \E i, j \in 1..Len(fSkills) :
           /\ i < j
           /\ \E a, b \in 1..Len(fResult[1]) :
                  a > b /\ fResult[1][a] = fSkills[i] /\ fResult[1][b] = fSkills[j]
    /\ \E a, b \in 1..Len(fResult[1]) :
           /\ a # b
           /\ Same(GeneralScore(trim(toLowerCase(fQuery)), fResult[1][a]),
                   GeneralScore(trim(toLowerCase(fQuery)), fResult[1][b]))

\* the 1-based position of the first colon of q, the text before it and the
\* text after it
HasColon(q) == \E i \in 1..Len(q) : q[i] = 58
FirstColon(q) == SetMin({i \in 1..Len(q) : q[i] = 58})
BeforeColon(q) == SubSeq(q, 1, FirstColon(q) - 1)
AfterColon(q) == SubSeq(q, FirstColon(q) + 1, Len(q))

\* the skills whose namespace starts with prefix, letter case aside, in the
\* order of the catalog
InNamespacePrefix(skills, prefix) ==
    LET Starts(s) == startsWith(toLowerCase(s.namespace), toLowerCase(prefix))
    IN  SelectSeq(skills, Starts)

\* max(score(namePart, name), 0.3 * score(namePart, description))
NameOrDescriptionScore(namePart, skill) ==
    MathMax(scoreMatch(namePart, skill.name),
            Times(Frac(3, 10), scoreMatch(namePart, skill.description)))

\* res lists exactly the candidates that score above 0 under namePart, each
\* once, in descending order of score
IsScopedRanking(res, candidates, namePart) ==
    LET hits == {candidates[i] : i \in {k \in 1..Len(candidates) :
                    Positive(NameOrDescriptionScore(namePart, candidates[k]))}}
    IN  /\ {res[i] : i \in 1..Len(res)} = hits
        /\ Len(res) = Cardinality(hits)
        /\ \A a, b \in 1..Len(res) :
               a < b => ~Less(NameOrDescriptionScore(namePart, res[a]),
                              NameOrDescriptionScore(namePart, res[b]))

SearchTexts(q) ==
    {trim(q)} \cup (IF HasColon(q) THEN {trim(AfterColon(q))} ELSE {})

\* C17: description matches are substring-only: a skill whose name and
\* namespace:name do not hold the searched text even as a scattered
\* subsequence is in a filter result only if its description holds the text
\* as a contiguous substring, letter case aside.
C17_DescriptionSubstringOnly ==
    (fResult # None /\ trim(fQuery) # <<>>) =>
        \A i \in 1..Len(fResult[1]) :
            LET skill == fResult[1][i]
                nsName == skill.namespace \o <<58>> \o skill.name
            IN  (\A w \in SearchTexts(fQuery) :
                     Tier(w, skill.name) = 0 /\ Tier(w, nsName) = 0)
                    => \E w \in SearchTexts(fQuery) : Occurrences(w, skill.description) # {}

----------------------------------------------------------------------------
(* Properties of buildDisplayList *)

\* the skills of the catalog that the records name, in the order of the
\* records, records of unknown names skipped
LiveRecents(skills, recs) ==
    LET Live(r) == \E i \in 1..Len(skills) : skills[i].name = r.name
        live == SelectSeq(recs, Live)
    IN  [k \in 1..Len(live) |->
            skills[CHOOSE i \in 1..Len(skills) : skills[i].name = live[k].name]]

\* the 1-based positions of the headers of a display list, and the position
\* of the header an item stands under (0 if there is none)
HeaderPositions(items) == {i \in 1..Len(items) : items[i].type = "header"}
OwningHeader(items, i) ==
    LET before == {h \in HeaderPositions(items) : h < i}
    IN  IF before = {} THEN 0 ELSE SetMax(before)

\* alphabetical order, letter case aside
AlphabeticalOrEqual(a, b) == ~LexLess(toLowerCase(b), toLowerCase(a))

\* C18: in every list buildDisplayList returns, each entry stands under the
\* header of its own group with no other header in between, the namespace
\* headers are in alphabetical order, the entries of a namespace group are
\* in alphabetical order of name, and the "other" header comes after every
\* other header.  The headers in alphabetical order are those of the
\* namespace groups other than "other"; the header of the recent section is
\* the first of the list whenever a record names a skill of the catalog.
C18_DisplayListOrder ==
    fItems # None =>
        LET items == fItems[1]
            recentEnd == IF LiveRecents(fSkills, fRecents) = <<>> THEN 0
                         ELSE 1 + Len(LiveRecents(fSkills, fRecents))
            nsHeaders == {h \in HeaderPositions(items) : h > recentEnd}
        IN  /\ \A i \in 1..Len(items) :
                   items[i].type = "skill" =>
                       /\ OwningHeader(items, i) > 0
                       /\ items[OwningHeader(items, i)].namespace = items[i].namespace
                       /\ (i > recentEnd => items[i].namespace = items[i].skill.namespace)
            /\ \A g, h \in nsHeaders :
                   (g < h /\ items[g].namespace # Other /\ items[h].namespace # Other)
                       => AlphabeticalOrEqual(items[g].namespace, items[h].namespace)
            /\ \A i, j \in 1..Len(items) :
                   (/\ recentEnd < i
                    /\ i < j
                    /\ items[i].type = "skill"
                    /\ items[j].type = "skill"
                    /\ OwningHeader(items, i) = OwningHeader(items, j))
                       => AlphabeticalOrEqual(items[i].skill.name, items[j].skill.name)
            /\ \A g, h \in HeaderPositions(items) :
                   (items[g].namespace = Other /\ g # h) => h < g

\* a list with the recent section, a namespace that sorts after "other", the
\* group "other", and a group of two skills that are not in catalog order
C18_Witness ==
    /\ fItems # None
    /\ LiveRecents(fSkills, fRecents) # <<>>
    /\ \E g, h \in HeaderPositions(fItems[1]) :
           /\ 1 < g
           /\ g < h
           /\ fItems[1][h].namespace = Other
           /\ LexLess(Other, fItems[1][g].namespace)
    /\ \E i, j \in 1..Len(fSkills) :
           /\ i < j
           /\ fSkills[i].namespace = fSkills[j].namespace
           /\ LocaleLess(fSkills[j].name, fSkills[i].name)

\* C19: when at least one record names a skill of the catalog, the list
\* starts with the "recent" header followed by those skills in the order of
\* the records (latest first, records of unknown names skipped), and none of
\* them appears again under its namespace group; when no record names a
\* skill of the catalog, the list has no "recent" header.
C19_RecentSection ==
    fItems # None =>
        LET items == fItems[1]
            live == LiveRecents(fSkills, fRecents)
        IN  /\ \A i, j \in 1..Len(fRecents) :
                   i < j => fRecents[i].timestamp > fRecents[j].timestamp
            /\ (live # <<>> =>
                   /\ Len(items) > Len(live)
                   /\ items[1] = Header(Recent)
                   /\ \A k \in 1..Len(live) : items[k + 1] = Entry(live[k], Recent)
                   /\ \A i \in (Len(live) + 2)..Len(items) :
                          items[i].type = "skill" =>
                              \A k \in 1..Len(live) : items[i].skill # live[k])
            /\ (live = <<>> =>
                   \A h \in HeaderPositions(items) : items[h].namespace # Recent)

\* C20: a freshly created session has an empty query and its cursor on the
\* first entry of its display list (on the list's start when it has no
\* entry); when a record names a skill of the catalog, that entry is the
\* skill of the latest such record, in the recent section.
C20_FreshSession ==
    (allSkills = fSkills /\ recents = fRecents) =>
        /\ query = <<>>
        /\ selectedIndex = FirstEntryOrZero(displayItems)
        /\ (LiveRecents(fSkills, fRecents) # <<>> =>
               displayItems[selectedIndex + 1] = Entry(LiveRecents(fSkills, fRecents)[1], Recent))

\* a session opened with two records, the latest about a skill that is gone:
\* the cursor is on the skill of the second record
C20_Witness ==
    /\ allSkills = fSkills
    /\ recents = fRecents
    /\ Len(fRecents) = 2
    /\ LiveRecents(fSkills, fRecents) # <<>>
    /\ fRecents[1].name # LiveRecents(fSkills, fRecents)[1].name
    /\ selectedIndex = 1
    /\ displayItems[2].skill.name = fRecents[2].name
    /\ Len(displayItems) > 3

----------------------------------------------------------------------------
(* The extension: the queued skill, the usage list and before_agent_start *)

MAX_RECENTS == 8
MaxStarts == 2      \* most recordUsage calls of a run

\* loadUsageFromDisk(): the list of the file, [] when there is none
loadUsageFromDisk(file) == IF file = None THEN <<>> ELSE file[1]

\* recordUsage without the truncation to MAX_RECENTS
recordUsageUnbounded(recs, skill, ts) ==
    LET hits == {i \in 1..Len(recs) : recs[i].name = skill.name}
        count == (IF hits = {} THEN 0 ELSE recs[SetMin(hits)].count) + 1
        NotThis(r) == r.name # skill.name
    IN  <<[name |-> skill.name, namespace |-> skill.namespace,
           timestamp |-> ts, count |-> count]>> \o SelectSeq(recs, NotThis)

\* recordUsage that always starts the count at 1
recordUsageCountOne(recs, skill, ts) ==
    LET NotThis(r) == r.name # skill.name
        list == <<[name |-> skill.name, namespace |-> skill.namespace,
                   timestamp |-> ts, count |-> 1]>> \o SelectSeq(recs, NotThis)
    IN  IF Len(list) > MAX_RECENTS THEN SubSeq(list, 1, MAX_RECENTS) ELSE list

\* recordUsage that leaves the earlier record of the name in place
recordUsageKeepsOld(recs, skill, ts) ==
    LET hits == {i \in 1..Len(recs) : recs[i].name = skill.name}
        count == (IF hits = {} THEN 0 ELSE recs[SetMin(hits)].count) + 1
        list == <<[name |-> skill.name, namespace |-> skill.namespace,
                   timestamp |-> ts, count |-> count]>> \o recs
    IN  IF Len(list) > MAX_RECENTS THEN SubSeq(list, 1, MAX_RECENTS) ELSE list

\* the value of state.recentSkills after recordUsage(state, skill) at time ts
recordUsage(recs, skill, ts) ==
    LET hits == {i \in 1..Len(recs) : recs[i].name = skill.name}
        count == (IF hits = {} THEN 0 ELSE recs[SetMin(hits)].count) + 1
        NotThis(r) == r.name # skill.name
        list == <<[name |-> skill.name, namespace |-> skill.namespace,
                   timestamp |-> ts, count |-> count]>> \o SelectSeq(recs, NotThis)
    IN  IF Len(list) > MAX_RECENTS THEN SubSeq(list, 1, MAX_RECENTS) ELSE list

\* what loadSkills() returns to the extension
HostCatalog ==
    <<Skill(<<"a">>, <<"b">>, <<"a">>),
      Skill(<<"A">>, <<"b">>, <<"a">>),
      Skill(<<"r">>, <<"b">>, <<"a">>)>>

\* a usage.json written by earlier runs: a full list, the latest first, its
\* first and last names used twice
SavedNames ==
    <<<<"a">>, <<"b">>, <<"c">>, <<"e">>, <<"h">>, <<"n">>, <<"o">>, <<"A">>>>
SavedList ==
    [i \in 1..Len(SavedNames) |->
        [name |-> S(SavedNames[i]), namespace |-> <<98>>,
         timestamp |-> Len(SavedNames) + 1 - i,
         count |-> IF i \in {1, Len(SavedNames)} THEN 2 ELSE 1]]
UsageFiles == {None, Some(<<>>), Some(SavedList)}
FirstNow == Len(SavedNames) + 1

\* the recorded-so-far counts of a list as it is loaded
CountsOf(recs) ==
    [n \in {recs[i].name : i \in 1..Len(recs)} |->
        recs[CHOOSE i \in 1..Len(recs) : recs[i].name = n].count]

\* skillPalette(pi): module state, then state.recentSkills = loadUsageFromDisk()
InitHost ==
    /\ PaletteIdle
    /\ ScoreIdle
    /\ FilterIdle
    /\ ComponentIdle
    /\ LoaderIdle
    /\ usageFile \in UsageFiles
    /\ queuedSkill = None
    /\ stateRecents = loadUsageFromDisk(usageFile)
    /\ now = FirstNow
    /\ hostStep = "none"
    /\ injected = None
    /\ timesRecorded = CountsOf(loadUsageFromDisk(usageFile))

\* what the palette reports when Enter is pressed with the cursor on the
\* entry at pos of the list it opened with
PaletteResult(pos) ==
    LET queuedName == IF queuedSkill = None THEN None ELSE Some(queuedSkill[1].name)
        opened == createPaletteState(HostCatalog, queuedName, stateRecents)
    IN  handlePaletteInput([opened EXCEPT !.selectedIndex = pos], KeyReturn).action[1]

\* openPalette that drops the queued skill when the palette is cancelled
QueueAfterPaletteCancelClears(queued, result) ==
    IF result.type = "select" THEN Some(result.skill) ELSE None

\* openPalette after the palette closed: state.queuedSkill for its result
QueueAfterPalette(queued, result) ==
    IF result.type = "select" THEN Some(result.skill)
    ELSE IF result.type = "unqueue" THEN None
    ELSE queued

\* openPalette: the palette ends with select or unqueue on some entry
OpenPaletteConfirm ==
    /\ Len(HostCatalog) > 0
    /\ \E pos \in 0..(Len(buildDisplayList(HostCatalog, stateRecents)) - 1) :
          /\ buildDisplayList(HostCatalog, stateRecents)[pos + 1].type = "skill"
          /\ LET result == PaletteResult(pos)
             IN  /\ queuedSkill' = QueueAfterPalette(queuedSkill, result)
                 /\ hostStep' = result.type
    /\ injected' = None
    /\ UNCHANGED <<stateRecents, usageFile, now, timesRecorded>>
    /\ UNCHANGED <<paletteVars, scoreVars, filterVars, componentVars, loaderVars>>

\* openPalette: the palette ends with cancel (Escape or the inactivity timer)
OpenPaletteCancel ==
    /\ Len(HostCatalog) > 0
    /\ queuedSkill' = QueueAfterPalette(queuedSkill, CancelAction)
    /\ hostStep' = "cancel"
    /\ injected' = None
    /\ UNCHANGED <<stateRecents, usageFile, now, timesRecorded>>
    /\ UNCHANGED <<paletteVars, scoreVars, filterVars, componentVars, loaderVars>>

\* /skill namespace:name with a matching skill: queueSkill(match, ctx)
SkillCommand ==
    /\ \E i \in 1..Len(HostCatalog) : queuedSkill' = Some(HostCatalog[i])
    /\ hostStep' = "command"
    /\ injected' = None
    /\ UNCHANGED <<stateRecents, usageFile, now, timesRecorded>>
    /\ UNCHANGED <<paletteVars, scoreVars, filterVars, componentVars, loaderVars>>

\* before_agent_start with nothing queued
AgentStartIdle ==
    /\ queuedSkill = None
    /\ hostStep' = "start"
    /\ injected' = None
    /\ UNCHANGED <<queuedSkill, stateRecents, usageFile, now, timesRecorded>>
    /\ UNCHANGED <<paletteVars, scoreVars, filterVars, componentVars, loaderVars>>

\* before_agent_start with a queued skill: the queue is cleared, the usage
\* recorded and saved (the save may fail silently and may leave no readable
\* file), then the skill file is read, which may throw
AgentStartQueued ==
    /\ queuedSkill # None
    /\ now < FirstNow + MaxStarts
    /\ LET skill == queuedSkill[1]
           list == recordUsage(stateRecents, skill, now)
       IN  /\ queuedSkill' = None
           /\ stateRecents' = list
           /\ usageFile' \in {Some(list), usageFile, None}
           /\ timesRecorded' =
                 [n \in {list[i].name : i \in 1..Len(list)} |->
                    IF n # skill.name THEN timesRecorded[n]
                    ELSE IF n \in DOMAIN timesRecorded THEN timesRecorded[n] + 1
                    ELSE 1]
           /\ \E readable \in BOOLEAN :
                 injected' = IF readable THEN Some(skill) ELSE None
    /\ now' = now + 1
    /\ hostStep' = "start"
    /\ UNCHANGED <<paletteVars, scoreVars, filterVars, componentVars, loaderVars>>

\* the process ends and the extension is loaded again
Restart ==
    /\ queuedSkill' = None
    /\ stateRecents' = loadUsageFromDisk(usageFile)
    /\ timesRecorded' = CountsOf(loadUsageFromDisk(usageFile))
    /\ hostStep' = "restart"
    /\ injected' = None
    /\ UNCHANGED <<usageFile, now>>
    /\ UNCHANGED <<paletteVars, scoreVars, filterVars, componentVars, loaderVars>>

NextHost ==
    \/ OpenPaletteConfirm
    \/ OpenPaletteCancel
    \/ SkillCommand
    \/ AgentStartIdle
    \/ AgentStartQueued
    \/ Restart

SpecHost == InitHost /\ [][NextHost]_vars

----------------------------------------------------------------------------
(* Properties of the usage list and the queue *)

\* the step is a recordUsage call (only before_agent_start with a queued
\* skill lets the clock of the records advance)
RecordsUsage == now' # now

NamesOf(recs) == {recs[i].name : i \in 1..Len(recs)}
RecordsNamed(recs, name) == {i \in 1..Len(recs) : recs[i].name = name}

\* recs without the records of name, in their order
Others(recs, name) ==
    LET Keep(r) == r.name # name IN SelectSeq(recs, Keep)

\* C21: recordUsage of a name absent from the recents list inserts a record
\* for it at the front with count 1; recordUsage of a name already present
\* moves its record to the front with the count incremented by 1 and leaves
\* exactly one record for that name; the relative order of all other records
\* is unchanged.
C21_RecordUsageMovesToFront ==
    [][RecordsUsage =>
        LET name == queuedSkill[1].name
            before == RecordsNamed(stateRecents, name)
            after == stateRecents'
        IN  /\ Len(after) >= 1
            /\ after[1].name = name
            /\ after[1].count =
                  IF before = {} THEN 1
                  ELSE stateRecents[CHOOSE i \in before : TRUE].count + 1
            /\ RecordsNamed(after, name) = {1}
            /\ Tail(after) = SubSeq(Others(stateRecents, name), 1, Len(after) - 1)
            /\ before = {} => Len(after) = Len(stateRecents) + 1
                                 \/ Len(after) = MAX_RECENTS
            /\ before # {} => Len(after) = Len(stateRecents)]_vars

\* a name that was in the list has just been recorded again, and a name that
\* was absent has been recorded before it
C21_Witness ==
    /\ hostStep = "start"
    /\ Len(stateRecents) >= 2
    /\ stateRecents[1].count >= 2
    /\ stateRecents[1].timestamp >= FirstNow
    /\ stateRecents[2].count = 1
    /\ stateRecents[2].timestamp >= FirstNow

MostRecentFirst(recs) ==
    \A i, j \in 1..Len(recs) : i < j => recs[i].timestamp > recs[j].timestamp

\* C22: at every point of a run the recents list holds at most 8 records and
\* is ordered most-recently-used first; when a recordUsage call would make it
\* longer than 8, exactly the least recently used (tail) records are dropped.
C22_BoundedMostRecentFirst ==
    /\ [](Len(stateRecents) <= MAX_RECENTS /\ MostRecentFirst(stateRecents))
    /\ [][RecordsUsage =>
            LET rest == Others(stateRecents, queuedSkill[1].name)
                kept == Tail(stateRecents')
            IN  IF Len(rest) + 1 > MAX_RECENTS
                THEN /\ Len(stateRecents') = MAX_RECENTS
                     /\ kept = SubSeq(rest, 1, MAX_RECENTS - 1)
                ELSE kept = rest]_vars

\* a ninth name has been recorded and the tail record is gone
C22_Witness ==
    /\ hostStep = "start"
    /\ Len(stateRecents) = MAX_RECENTS
    /\ stateRecents[1].name = S(<<"r">>)
    /\ S(<<"A">>) \notin NamesOf(stateRecents)
    /\ S(<<"o">>) \in NamesOf(stateRecents)

----------------------------------------------------------------------------
(* SkillPaletteComponent: the palette session with its inactivity timer *)

INACTIVITY_MS == 60000
Ticks == 3               \* clock readings per inactivity period
MaxDone == 2             \* inputs are followed up to this many done calls
MaxComponentTyped == 1   \* longest query typed into the component

TickMs == INACTIVITY_MS \div Ticks

ComponentInputs == {KeyEscape, KeyReturn, KeyDown, <<97>>}

\* done(skill, action); afterDispose notes whether dispose() had run
DoneCall(skill, action) == [skill |-> skill, action |-> action, afterDispose |-> disposed]

\* the done call of handleInput for a palette action
DoneFor(action) ==
    IF action.type = "cancel" THEN DoneCall(None, "cancel")
    ELSE DoneCall(Some(action.skill), action.type)

\* resetInactivity() that keeps the deadline of the pending timeout
resetInactivityKeepsDeadline(ms) == ms

\* resetInactivity(): the pending timeout is cleared and a new one set, so
\* the time waited so far is forgotten
resetInactivity(ms) == 0

\* new SkillPaletteComponent(skills, queuedSkill, recents, theme, done)
InitComponent ==
    /\ \E queued \in QueuedChoices, recs \in RecentsChoices :
         LET st == createPaletteState(Catalog1, queued, recs)
         IN  /\ allSkills = st.allSkills
             /\ displayItems = st.displayItems
             /\ selectedIndex = st.selectedIndex
             /\ query = st.query
             /\ queuedSkillName = st.queuedSkillName
             /\ recents = st.recents
    /\ lastInput = <<>>
    /\ lastAction = None
    /\ timer = "pending"
    /\ elapsed = 0
    /\ doneCalls = <<>>
    /\ disposed = FALSE
    /\ cStep = "new"
    /\ ScoreIdle
    /\ FilterIdle
    /\ HostIdle
    /\ LoaderIdle

\* handleInput(data): resetInactivity, handlePaletteInput, and for an action
\* cleanup and done
ComponentInput(data) ==
    /\ Len(doneCalls) < MaxDone
    /\ data \in TypeChars => Len(query) < MaxComponentTyped
    /\ LET r == handlePaletteInput(State, data)
       IN  /\ SetState(r.state)
           /\ lastAction' = r.action
           /\ IF r.action = None
              THEN /\ timer' = "pending"
                   /\ elapsed' = resetInactivity(elapsed)
                   /\ doneCalls' = doneCalls
              ELSE /\ timer' = "none"
                   /\ elapsed' = 0
                   /\ doneCalls' = Append(doneCalls, DoneFor(r.action[1]))
    /\ lastInput' = data
    /\ cStep' = "input"
    /\ UNCHANGED <<disposed, scoreVars, filterVars, hostVars, loaderVars>>

\* time passes while a timeout is pending and not yet due
Tick ==
    /\ timer = "pending"
    /\ elapsed < INACTIVITY_MS
    /\ elapsed' = IF elapsed + TickMs > INACTIVITY_MS THEN INACTIVITY_MS
                  ELSE elapsed + TickMs
    /\ cStep' = "tick"
    /\ UNCHANGED <<timer, doneCalls, disposed>>
    /\ UNCHANGED <<paletteVars, scoreVars, filterVars, hostVars, loaderVars>>

\* the callback of the timeout: done(null, "cancel")
TimerExpires ==
    /\ timer = "pending"
    /\ elapsed >= INACTIVITY_MS
    /\ timer' = "fired"
    /\ doneCalls' = Append(doneCalls, DoneCall(None, "cancel"))
    /\ cStep' = "timeout"
    /\ UNCHANGED <<elapsed, disposed>>
    /\ UNCHANGED <<paletteVars, scoreVars, filterVars, hostVars, loaderVars>>

\* dispose(): cleanup()
Dispose ==
    /\ ~disposed
    /\ disposed' = TRUE
    /\ timer' = "none"
    /\ elapsed' = 0
    /\ cStep' = "dispose"
    /\ UNCHANGED doneCalls
    /\ UNCHANGED <<paletteVars, scoreVars, filterVars, hostVars, loaderVars>>

NextComponent ==
    \/ \E data \in ComponentInputs : ComponentInput(data)
    \/ Tick
    \/ TimerExpires
    \/ Dispose

\* time advances, and the event loop runs the callback of a due timeout
SpecComponent ==
    /\ InitComponent
    /\ [][NextComponent]_vars
    /\ WF_vars(Tick)
    /\ WF_vars(TimerExpires)

----------------------------------------------------------------------------
(* Properties of the component *)

\* what handleInput reports for the Cancel key in the current state
CancelKeyOutcome == DoneFor(handlePaletteInput(State, KeyEscape).action[1])

\* C23: from any session state, if no input arrives for 60 seconds the
\* component reports done(null, "cancel"), the same outcome the Cancel key
\* produces; every input that does not end the session restarts the
\* 60-second period.
C23_InactivityCancels ==
    /\ [][/\ cStep' = "timeout" =>
               /\ elapsed = INACTIVITY_MS
               /\ doneCalls' = Append(doneCalls, CancelKeyOutcome)
               /\ CancelKeyOutcome.skill = None
               /\ CancelKeyOutcome.action = "cancel"
          /\ (timer = "pending" /\ elapsed < INACTIVITY_MS) => doneCalls' = doneCalls
                                                              \/ cStep' = "input"
          /\ (cStep' = "input" /\ lastAction' = None) =>
               /\ timer' = "pending"
               /\ elapsed' = 0]_vars
    /\ (cStep = "tick") ~> (cStep \in {"timeout", "input", "dispose"})

\* a key restarted the period after 40 seconds, and the full period then
\* passed without input
C23_Witness ==
    /\ cStep = "timeout"
    /\ query # <<>>
    /\ doneCalls = <<[skill |-> None, action |-> "cancel", afterDispose |-> FALSE]>>

----------------------------------------------------------------------------
(* Properties of queueing and injection *)

\* what every step does to the queue, apart from what an agent start with a
\* queued skill injects
QueueSteps ==
    /\ Len(queuedSkill') <= 1
    /\ (hostStep' = "start" /\ queuedSkill # None) => queuedSkill' = None
    /\ (hostStep' = "start" /\ queuedSkill = None) =>
          /\ injected' = None
          /\ queuedSkill' = None
    /\ hostStep' # "start" => injected' = None
    /\ hostStep' = "select" =>
          /\ queuedSkill' # None
          /\ queuedSkill' # queuedSkill
          /\ \E i \in 1..Len(HostCatalog) : queuedSkill'[1] = HostCatalog[i]
    /\ hostStep' = "unqueue" => queuedSkill # None /\ queuedSkill' = None
    /\ hostStep' = "cancel" => queuedSkill' = queuedSkill

C25_RecordedOnlyWhenInjected ==
    [][/\ RecordsUsage =>
             /\ hostStep' = "start"
             /\ injected' # None
             /\ injected'[1].name = stateRecents'[1].name
       /\ hostStep' \in {"select", "unqueue", "cancel", "command"} =>
             /\ ~RecordsUsage
             /\ stateRecents' = stateRecents
             /\ usageFile' = usageFile]_vars

----------------------------------------------------------------------------
(* loadSkills: the catalog of the skill directories *)

MaxFiles == 2     \* most SKILL.md files in the scanned directories

\* the directories of loadSkills in scan order, with their source
SkillDirs == <<"home", "home", "home", "home", "local", "local">>

SkillsName == S(<<"s", "k", "i", "l", "l", "s">>)
AgentName == S(<<"a", "g", "e", "n", "t">>)

\* a SKILL.md found while scanning directory dir: the name and description
\* of its frontmatter, and the name of the directory above the skill's own
SkillFiles ==
    [dir : 1..Len(SkillDirs),
     name : {S(<<"a">>), S(<<"b">>)},
     description : {<<>>, S(<<"a">>)},
     parent : {SkillsName, S(<<"b">>)}]

\* the files in the order the scan meets them: directory after directory
FileLists ==
    UNION {{fs \in [1..n -> SkillFiles] :
              \A i, j \in 1..n : i < j => fs[i].dir <= fs[j].dir} : n \in 0..MaxFiles}

\* deriveNamespace(skillDir) for a skill that is not a symlink
deriveNamespace(parentName) ==
    IF parentName # <<>> /\ parentName # SkillsName /\ parentName # AgentName
    THEN parentName
    ELSE S(<<"o", "t", "h", "e", "r">>)

\* loadSkillFile where a later file replaces the skill of the same name
loadSkillFileLastWins(file, filePath, skillsByName) ==
    LET loaded == [name |-> file.name,
                   namespace |-> deriveNamespace(file.parent),
                   description |-> file.description,
                   filePath |-> filePath,
                   source |-> SkillDirs[file.dir]]
        hits == {i \in 1..Len(skillsByName) : skillsByName[i].name = file.name}
    IN  IF file.description = <<>> THEN skillsByName
        ELSE IF hits = {} THEN Append(skillsByName, loaded)
        ELSE [i \in 1..Len(skillsByName) |->
                IF i \in hits THEN loaded ELSE skillsByName[i]]

\* loadSkillFile: skillsByName (in insertion order) after the file at
\* filePath has been read
loadSkillFile(file, filePath, skillsByName) ==
    IF \/ file.description = <<>>
       \/ \E i \in 1..Len(skillsByName) : skillsByName[i].name = file.name
    THEN skillsByName
    ELSE Append(skillsByName,
                [name |-> file.name,
                 namespace |-> deriveNamespace(file.parent),
                 description |-> file.description,
                 filePath |-> filePath,
                 source |-> SkillDirs[file.dir]])

\* skillsByName after the first n files of the scan
RECURSIVE ScanFiles(_, _)
ScanFiles(files, n) ==
    IF n = 0 THEN <<>>
    ELSE loadSkillFile(files[n], n, ScanFiles(files, n - 1))

\* loadSkills(): Array.from(skillsByName.values())
loadSkills(files) == ScanFiles(files, Len(files))

InitLoader ==
    /\ PaletteIdle
    /\ ScoreIdle
    /\ FilterIdle
    /\ HostIdle
    /\ ComponentIdle
    /\ lFiles \in FileLists
    /\ lCatalog = None

LoadSkills ==
    /\ lCatalog = None
    /\ lCatalog' = Some(loadSkills(lFiles))
    /\ UNCHANGED lFiles
    /\ UNCHANGED <<paletteVars, scoreVars, filterVars, hostVars, componentVars>>

SpecLoader == InitLoader /\ [][LoadSkills]_vars

\* the positions in the scan of the files that define a skill called name
Definitions(files, name) ==
    {i \in 1..Len(files) : files[i].name = name /\ files[i].description # <<>>}

C27_DoneAtMostOnce ==
    /\ Len(doneCalls) <= 1
    /\ \A i \in 1..Len(doneCalls) : ~doneCalls[i].afterDispose

----------------------------------------------------------------------------
(* Further properties of the palette session and the display list *)

\* the session after k further inputs data
RECURSIVE AfterInputs(_, _, _)
AfterInputs(st, data, k) ==
    IF k = 0 THEN st
    ELSE AfterInputs(handlePaletteInput(st, data).state, data, k - 1)

\* C28: with n >= 1 entries in the display list, n consecutive Move-next
\* inputs visit every entry exactly once and bring the cursor back to where
\* it started, and Move-previous is the exact inverse of Move-next (Move-next
\* followed by Move-previous restores the cursor, and vice versa).
C28_MovesCycle ==
    LET entries == EntryPositions(displayItems)
        n == Cardinality(entries)
        CursorAfter(k) == AfterInputs(State, KeyDown, k).selectedIndex
        down == handlePaletteInput(State, KeyDown).state
        up == handlePaletteInput(State, KeyUp).state
    IN  n >= 1 =>
          /\ {CursorAfter(k) : k \in 1..n} = entries
          /\ \A j, k \in 1..n : CursorAfter(j) = CursorAfter(k) => j = k
          /\ CursorAfter(n) = selectedIndex
          /\ handlePaletteInput(down, KeyUp).state = State
          /\ handlePaletteInput(up, KeyDown).state = State

\* a grouped list with several entries, the cursor moved to its last entry
C28_Witness ==
    /\ lastInput \in {KeyUp, KeyDown}
    /\ HasHeader(displayItems)
    /\ Cardinality(EntryPositions(displayItems)) >= 3
    /\ selectedIndex = SetMax(EntryPositions(displayItems))

\* C29: for a catalog with unique names and a recents list with unique
\* names, the entries of buildDisplayList(catalog, recents) are a permutation
\* of the catalog (every item appears exactly once, none is lost or
\* duplicated), and every header is immediately followed by at least one
\* entry.
C29_EntriesArePermutation ==
    fItems # None =>
        LET items == fItems[1]
            entries == EntryPositions(items)
        IN  /\ Cardinality(entries) = Len(fSkills)
            /\ \A i \in 1..Len(fSkills) :
                  Cardinality({e \in entries : items[e + 1].skill = fSkills[i]}) = 1
            /\ \A h \in 1..Len(items) :
                  items[h].type = "header" =>
                      /\ h < Len(items)
                      /\ items[h + 1].type = "skill"

\* a list with a recent section and two namespace groups, built with a
\* record that names no skill of the catalog
C29_Witness ==
    /\ fItems # None
    /\ Len(fSkills) >= 3
    /\ LiveRecents(fSkills, fRecents) # <<>>
    /\ Len(LiveRecents(fSkills, fRecents)) < Len(fRecents)
    /\ Cardinality(HeaderPositions(fItems[1])) >= 3

\* C30: after any sequence of recordUsage calls starting from a list with
\* unique names, names in the recents list remain unique, every count is at
\* least 1, and a record's count equals the number of times its name was
\* recorded since it last entered the list: a name dropped by the 8-record
\* bound re-enters with count 1.
C30_CountsSinceEntering ==
    /\ \A i, j \in 1..Len(stateRecents) :
          stateRecents[i].name = stateRecents[j].name => i = j
    /\ \A i \in 1..Len(stateRecents) :
          /\ stateRecents[i].count >= 1
          /\ stateRecents[i].name \in DOMAIN timesRecorded
          /\ stateRecents[i].count = timesRecorded[stateRecents[i].name]

\* "A", used twice before, was dropped when a ninth name was recorded and
\* has been recorded again
C30_Witness ==
    /\ hostStep = "start"
    /\ Len(stateRecents) = MAX_RECENTS
    /\ stateRecents[1].name = S(<<"A">>)
    /\ stateRecents[1].count = 1
    /\ stateRecents[2].name = S(<<"r">>)

====
